---- MODULE Spec2Model ----
(***************************************************************************)
(* Model of the data-pipeline glue layer:                                  *)
(*   - MultihopQADataGenerator (training_utils.py): __len__, __getitem__,  *)
(*     __call__, on_epoch_end;                                             *)
(*   - extract_answer_from_target, verify_answer_in_prompt,                *)
(*     filter_token_size (training_utils.py);                              *)
(*   - the dataset loaders (data_loaders.py).                              *)
(* Three specifications share the module: SpecGen (the generator),         *)
(* SpecExtract (the regular-expression search) and SpecFiles (the          *)
(* operations on JSON files).                                              *)
(***************************************************************************)
EXTENDS Integers, Sequences, FiniteSets

VARIABLES
    \* ---- MultihopQADataGenerator instance
    n_examples,     \* self.n_examples
    batch_size,     \* self.batch_size
    shuffle,        \* self.shuffle
    row_order,      \* self.row_order, as a sequence
    row_is_array,   \* TRUE while self.row_order is a numpy array, FALSE once a list
    data_rows,      \* rows of the file self.data_filename, in file order
    gen_pc,         \* position of the generator object returned by __call__
    gen_i,          \* loop variable i of __call__
    yielded,        \* batches the current generator object has yielded
    auto_epoch_ends,\* on_epoch_end calls made by the current generator object
    event,          \* what the last step did
    last,           \* outcome of the last __getitem__ call
    \* ---- extract_answer_from_target
    target,         \* the argument
    result,         \* the returned value
    \* ---- operations on files
    fs,             \* file name -> content
    open_handles,   \* file objects that are open
    op              \* the last operation: its arguments and outcome

genVars == <<n_examples, batch_size, shuffle, row_order, row_is_array, data_rows,
             gen_pc, gen_i, yielded, auto_epoch_ends, event, last>>
extVars == <<target, result>>
fileVars == <<fs, open_handles, op>>
vars == <<genVars, extVars, fileVars>>

\* ------------------------------------------------------------------ bounds
MaxExamples == 3
MaxBatchSize == 3

\* ----------------------------------------------------------------- helpers
Min(a, b) == IF a < b THEN a ELSE b
Max(a, b) == IF a > b THEN a ELSE b

\* Python s[a:b] for 0 <= a, 0 <= b (0-based, half open, clamped to the length)
Slice(s, a, b) ==
    LET lo == Min(a, Len(s))
        hi == Max(lo, Min(b, Len(s)))
    IN  [k \in 1..(hi - lo) |-> s[lo + k]]

\* np.arange(a, b)
Arange(a, b) == [k \in 1..Max(0, b - a) |-> a + k - 1]


\* the ways to reorder n positions
Bijections ==
    [n \in 0..MaxExamples |->
        {p \in [1..n -> 1..n] : \A i, j \in 1..n : p[i] = p[j] => i = j}]

\* a draw with replacement, as np.random.choice would make
permutation_with_replacement(s) ==
    {[k \in 1..Len(s) |-> s[p[k]]] : p \in [1..Len(s) -> 1..Len(s)]}

\* the orderings np.random.permutation(s) can return
permutation(s) == {[k \in 1..Len(s) |-> s[p[k]]] : p \in Bijections[Len(s)]}

\* ------------------------------------------------- MultihopQADataGenerator
Err(kind) == [ok |-> FALSE, error |-> kind, value |-> <<>>]
Ok(v) == [ok |-> TRUE, error |-> "none", value |-> v]

\* __len__
GenLen == n_examples \div batch_size

\* a + b of __getitem__ line 93: list concatenation for lists, elementwise
\* addition with broadcasting for numpy arrays
SkipList(a, b) == Ok(a \o b)
SkipArray(a, b) ==
    IF Len(a) = Len(b) THEN Ok([k \in 1..Len(a) |-> a[k] + b[k]])
    ELSE IF Len(a) = 1 THEN Ok([k \in 1..Len(b) |-> a[1] + b[k]])
    ELSE IF Len(b) = 1 THEN Ok([k \in 1..Len(a) |-> a[k] + b[1]])
    ELSE Err("ValueError")
BatchIdxSkip(batch_start, batch_end) ==
    LET a == Slice(row_order, 0, batch_start)
        b == Slice(row_order, batch_end, Len(row_order))
    IN  IF row_is_array THEN SkipArray(a, b) ELSE SkipList(a, b)

\* preprocess_data: the encoding is a function of the text pairs alone
preprocess_data(text_pairs) == [encoded |-> text_pairs]

\* df.iloc[batch_start : batch_end] of the freshly read file
Iloc(batch_start, batch_end) == Slice(data_rows, batch_start, batch_end)

\* __getitem__
GetItem(idx) ==
    LET batch_start == idx * batch_size
        batch_end == (idx + 1) * batch_size
        batch_idx_skip == BatchIdxSkip(batch_start, batch_end)
    IN  IF ~batch_idx_skip.ok THEN Err(batch_idx_skip.error)
        ELSE Ok(preprocess_data(Iloc(batch_start, batch_end)))

\* on_epoch_end: the values self.row_order and its type can take afterwards
EpochEndOrders ==
    IF shuffle THEN permutation(row_order) ELSE {row_order}
EpochEndIsArray == IF shuffle THEN FALSE ELSE row_is_array

NoCall == [idx |-> -1, res |-> Err("none")]

\* __init__ : the state after construction (on_epoch_end included)
InitGen ==
    /\ n_examples \in 0..MaxExamples
    /\ batch_size \in 1..MaxBatchSize
    /\ shuffle \in BOOLEAN
    /\ data_rows = Arange(0, n_examples)
    /\ row_order \in (IF shuffle THEN permutation(Arange(1, n_examples + 1))
                                 ELSE {Arange(1, n_examples + 1)})
    /\ row_is_array = ~shuffle
    /\ gen_pc = "none"
    /\ gen_i = 0
    /\ yielded = <<>>
    /\ auto_epoch_ends = 0
    /\ event = "construct"
    /\ last = NoCall

genConfig == <<n_examples, batch_size, shuffle, data_rows>>

\* a direct call of __getitem__(idx), 0 <= idx < __len__()
Item ==
    \E idx \in 0..(GenLen - 1) :
        /\ last' = [idx |-> idx, res |-> GetItem(idx)]
        /\ event' = "item"
        /\ UNCHANGED <<genConfig, row_order, row_is_array, gen_pc, gen_i, yielded,
                       auto_epoch_ends>>

\* a direct call of on_epoch_end()
OnEpochEnd ==
    /\ row_order' \in EpochEndOrders
    /\ row_is_array' = EpochEndIsArray
    /\ event' = "epoch_end"
    /\ UNCHANGED <<genConfig, gen_pc, gen_i, yielded, auto_epoch_ends, last>>

\* __call__(): a new generator object, which replaces the one the consumer
\* held (exhausted or not); no line of the body has run yet
Call ==
    /\ gen_pc' = "created"
    /\ gen_i' = 0
    /\ yielded' = <<>>
    /\ auto_epoch_ends' = 0
    /\ event' = "call"
    /\ UNCHANGED <<genConfig, row_order, row_is_array, last>>

\* the generator runs __getitem__(i) and yields it, or dies with its exception
GenYield(i) ==
    LET r == GetItem(i)
    IN  /\ gen_i' = i
        /\ event' = "item"
        /\ IF r.ok
           THEN /\ gen_pc' = "yielded"
                /\ yielded' = Append(yielded, r.value)
           ELSE /\ gen_pc' = "raised"
                /\ yielded' = yielded
        /\ UNCHANGED <<genConfig, row_order, row_is_array, auto_epoch_ends, last>>

\* next() on a generator object that has not started: range() is entered
GenStart ==
    /\ gen_pc = "created"
    /\ IF GenLen > 0
       THEN GenYield(0)
       ELSE /\ gen_pc' = "done"
            /\ event' = "stop"
            /\ UNCHANGED <<genConfig, row_order, row_is_array, gen_i, yielded,
                           auto_epoch_ends, last>>

\* next() on a generator object suspended at the yield: the rest of the loop
\* body (lines 112-113) runs, then the next iteration or the end of the loop
GenResume ==
    /\ gen_pc = "yielded"
    /\ IF gen_i = GenLen - 1
       THEN /\ row_order' \in EpochEndOrders
            /\ row_is_array' = EpochEndIsArray
            /\ auto_epoch_ends' = auto_epoch_ends + 1
            /\ gen_pc' = "done"
            /\ event' = "epoch_end"
            /\ UNCHANGED <<genConfig, gen_i, yielded, last>>
       ELSE GenYield(gen_i + 1)

NextGen ==
    \/ Item /\ UNCHANGED <<extVars, fileVars>>
    \/ OnEpochEnd /\ UNCHANGED <<extVars, fileVars>>
    \/ Call /\ UNCHANGED <<extVars, fileVars>>
    \/ GenStart /\ UNCHANGED <<extVars, fileVars>>
    \/ GenResume /\ UNCHANGED <<extVars, fileVars>>

\* ------------------------------------------- extract_answer_from_target
\* strings are sequences of characters
AnswerIs == <<"a", "n", "s", "w", "e", "r", " ", "i", "s">>
TheAnswerIsParis ==
    <<"T", "h", "e", " ">> \o AnswerIs \o <<" ", "P", "a", "r", "i", "s", ".">>
NoAnswerHere ==
    <<"N", "o", " ", "a", "n", "s", "w", "e", "r", " ", "h", "e", "r", "e">>

\* \s of the pattern, and the characters str.strip() removes
IsSpace(c) == c \in {" ", "\n"}

\* 'answer is' matches at position s (1-based) of t
LiteralAt(t, s) ==
    /\ s + Len(AnswerIs) - 1 <= Len(t)
    /\ \A k \in 1..Len(AnswerIs) : t[s + k - 1] = AnswerIs[k]

\* the lengths \s* can take at position q, every one a backtracking point
SpaceLens(t, q) ==
    {k \in 0..(Len(t) - q + 1) : \A j \in 0..(k - 1) : IsSpace(t[q + j])}

\* the lengths [^\.]+ can take at position q
NonPeriodLens(t, q) ==
    {m \in 1..(Len(t) - q + 1) : \A j \in 0..(m - 1) : t[q + j] # "."}

SetMax(S) == CHOOSE x \in S : \A y \in S : y <= x
SetMin(S) == CHOOSE x \in S : \A y \in S : x <= y

NoMatch == [matched |-> FALSE, from |-> 0, to |-> 0]

\* the lengths [^\.]+ can take at position q so that the final \. matches
GroupLens(t, q) ==
    {m \in NonPeriodLens(t, q) : q + m <= Len(t) /\ t[q + m] = "."}

\* group 1 once \s* has settled on k characters: [^\.]+ as long as it can be
Group(t, q, k) ==
    [matched |-> TRUE, from |-> q + k, to |-> q + k + SetMax(GroupLens(t, q + k)) - 1]

\* ks: the lengths of \s* with which the rest of the pattern matches; the
\* greedy \s* gives characters back only until it does, so the longest wins
MatchRest(t, q, ks) == IF ks = {} THEN NoMatch ELSE Group(t, q, SetMax(ks))

\* the pattern r'answer is\s*([^\.]+)\.' tried at start position s;
\* from..to is the span of group 1
MatchAt(t, s) ==
    IF ~LiteralAt(t, s) THEN NoMatch
    ELSE MatchRest(t, s + Len(AnswerIs),
                   {k \in SpaceLens(t, s + Len(AnswerIs)) :
                       GroupLens(t, s + Len(AnswerIs) + k) # {}})

\* re.search: the match at the leftmost start position that has one
FirstMatch(t, starts) == IF starts = {} THEN NoMatch ELSE MatchAt(t, SetMin(starts))
re_search(t) == FirstMatch(t, {s \in 1..Len(t) : MatchAt(t, s).matched})

\* str.strip()
strip(s) ==
    LET keep == {i \in 1..Len(s) : ~IsSpace(s[i])}
    IN  IF keep = {} THEN <<>> ELSE SubSeq(s, SetMin(keep), SetMax(keep))

None == [none |-> TRUE, text |-> <<>>]
Str(s) == [none |-> FALSE, text |-> s]

\* result = None; if match: result = match.group(1).strip()
GroupText(t, match) ==
    IF match.matched THEN Str(strip(SubSeq(t, match.from, match.to))) ELSE None


\* the group as matched, without .strip()
extract_answer_unstripped(t) ==
    IF re_search(t).matched
    THEN Str(SubSeq(t, re_search(t).from, re_search(t).to))
    ELSE None

extract_answer_from_target(t) == GroupText(t, re_search(t))

\* the targets tried: up to MaxPieces pieces in any order, and the two
\* documented examples
MaxPieces == 4
Pieces == {AnswerIs, <<" ">>, <<"\n">>, <<".">>, <<"P">>}
RECURSIVE PieceStrings(_)
PieceStrings(n) ==
    IF n = 0 THEN {<<>>}
    ELSE LET shorter == PieceStrings(n - 1)
         IN  shorter \cup {s \o p : s \in shorter, p \in Pieces}
Targets == PieceStrings(MaxPieces) \cup {TheAnswerIsParis, NoAnswerHere}

Unset == [called |-> FALSE, value |-> None]

ExtractAnswer ==
    /\ ~result.called
    /\ result' = [called |-> TRUE, value |-> extract_answer_from_target(target)]
    /\ UNCHANGED target

\* ---------------------------------------------------------- JSON files
MaxFileLen == 2
MaxTokenSize == 2

\* example records of fine-tuning data
ExA == [prompt |-> <<"Q", " ", "P">>, target |-> AnswerIs \o <<" ", "P", ".">>,
        num_prompt_tokens |-> 1]
ExB == [prompt |-> <<"Q">>, target |-> AnswerIs \o <<" ", "P", ".">>,
        num_prompt_tokens |-> 2]
ExC == [prompt |-> <<"Q", " ", "P">>, target |-> <<"P">>,
        num_prompt_tokens |-> 3]
Examples == {ExA, ExB, ExC}

\* the text of a JSON file: the serialised fields of each element, in order
json_dumps(data) ==
    [wellformed |-> TRUE,
     items |-> [i \in 1..Len(data) |->
                   <<data[i].prompt, data[i].target, data[i].num_prompt_tokens>>]]
json_load(text) ==
    IF ~text.wellformed THEN Err("JSONDecodeError")
    ELSE Ok([i \in 1..Len(text.items) |->
                [prompt |-> text.items[i][1], target |-> text.items[i][2],
                 num_prompt_tokens |-> text.items[i][3]]])
Malformed == [wellformed |-> FALSE, items |-> <<>>]

RECURSIVE ExampleLists(_)
ExampleLists(n) ==
    IF n = 0 THEN {<<>>}
    ELSE LET shorter == ExampleLists(n - 1)
         IN  shorter \cup {Append(l, e) : l \in shorter, e \in Examples}
FileTexts == {json_dumps(l) : l \in ExampleLists(MaxFileLen)} \cup {Malformed}

\* file names are sequences of path pieces
\* load_FinetuningData: os.path.join(path, f'{strategy}_{split}.json')
FinetuningPath(strategy, split) ==
    <<"data/FinetuningData/", strategy, "_", split, ".json">>
\* str(token_size)
str(n) == <<"0", "1", "2", "3", "4", "5", "6", "7", "8", "9">>[n + 1]
\* file.replace(".json", "") + '_' + suffix + '.json'
NewName(file, suffix) ==
    LET NotJson(x) == x # ".json"
    IN  SelectSeq(file, NotJson) \o <<"_", suffix, ".json">>

TrainFile == FinetuningPath("direct", "train")
\* a file named like an output of filter_token_size(TrainFile, ..., 1)
TrainFile_1 == <<"data/FinetuningData/", "direct", "_", "train", "_", "1", ".json">>
\* a file without the .json extension
TrainNoExt == <<"data/FinetuningData/", "direct", "_", "train">>
InputNames == {TrainFile, TrainFile_1, TrainNoExt}

\* open(name, 'w'); write(text); close, as the with statement does
WriteFile(fsx, name, text) ==
    [x \in DOMAIN fsx \cup {name} |-> IF x = name THEN text ELSE fsx[x]]

Outcome(res, fsx, handles) == [res |-> res, fs |-> fsx, open |-> handles]


\* the slice taken for n_examples = 0 as well
FirstNFromZero(data, n) == IF n >= 0 THEN Slice(data, 0, n) ELSE data

\* data[:n_examples] if n_examples > 0
FirstN(data, n) == IF n > 0 THEN Slice(data, 0, n) ELSE data

\* load_TestData: the with statement closes the file on every path
load_TestData(fsx, file, n) ==
    IF file \notin DOMAIN fsx THEN Outcome(Err("FileNotFoundError"), fsx, {})
    ELSE LET data == json_load(fsx[file])
         IN  IF ~data.ok THEN Outcome(data, fsx, {})
             ELSE Outcome(Ok(FirstN(data.value, n)), fsx, {})

load_FinetuningData(fsx, n, split, strategy) ==
    load_TestData(fsx, FinetuningPath(strategy, split), n)

\* the file objects of the two-file operations, by the variable holding them
Handle(var, file) == [var |-> var, file |-> file]

\* open; open; json.load; json.load; close; close (filter_token_size lines
\* 242-250, finetune_self_ask lines 143-152)
OpenLoadClose(fsx, train_file, valid_file) ==
    LET f_train == Handle("f_train", train_file)
        f_valid == Handle("f_valid", valid_file)
    IN  IF train_file \notin DOMAIN fsx
        THEN Outcome(Err("FileNotFoundError"), fsx, {})
        ELSE IF valid_file \notin DOMAIN fsx
        THEN Outcome(Err("FileNotFoundError"), fsx, {f_train})
        ELSE LET js_train == json_load(fsx[train_file])
                 js_valid == json_load(fsx[valid_file])
             IN  IF ~js_train.ok THEN Outcome(js_train, fsx, {f_train, f_valid})
                 ELSE IF ~js_valid.ok THEN Outcome(js_valid, fsx, {f_train, f_valid})
                 ELSE Outcome(Ok(<<js_train.value, js_valid.value>>), fsx, {})


\* the comparison with < in place of <=
KeepBelowTokenSize(dictionary, token_size) == dictionary.num_prompt_tokens < token_size

\* dictionary['num_prompt_tokens'] <= token_size
KeepTokenSize(dictionary, token_size) == dictionary.num_prompt_tokens <= token_size

filter_token_size(fsx, train_file, valid_file, token_size) ==
    LET loaded == OpenLoadClose(fsx, train_file, valid_file)
    IN  IF ~loaded.res.ok THEN loaded
        ELSE LET Keep(d) == KeepTokenSize(d, token_size)
                 filtered_train == SelectSeq(loaded.res.value[1], Keep)
                 filtered_dev == SelectSeq(loaded.res.value[2], Keep)
                 train_object == json_dumps(filtered_train)
                 valid_object == json_dumps(filtered_dev)
                 f_new_train == NewName(train_file, str(token_size))
                 f_new_dev == NewName(valid_file, str(token_size))
                 fs1 == WriteFile(fsx, f_new_train, train_object)
                 fs2 == WriteFile(fs1, f_new_dev, valid_object)
             IN  Outcome(Ok(<<>>), fs2, {})

\* the example-count step of finetune_self_ask
finetune_count(fsx, train_file, valid_file) ==
    LET loaded == OpenLoadClose(fsx, train_file, valid_file)
    IN  IF ~loaded.res.ok THEN loaded
        ELSE Outcome(Ok(<<Len(loaded.res.value[1]), Len(loaded.res.value[2])>>),
                     fsx, {})

\* a in s, for strings
IsSubstring(a, s) ==
    \E i \in 0..(Len(s) - Len(a)) : SubSeq(s, i + 1, i + Len(a)) = a

\* answer in prompt: None as the left operand of `in` is a TypeError
InPrompt(answer, prompt) ==
    IF answer.none THEN Err("TypeError") ELSE Ok(IsSubstring(answer.text, prompt))

\* extract_answer_from_target(example['target']) in example['prompt']
AnswerInPrompt(example) ==
    InPrompt(extract_answer_from_target(example.target), example.prompt)

\* the loop of lines 224-228 from example i on, tests[i] being the outcome of
\* the condition on example i: the examples kept, or the first error raised
RECURSIVE FilterLoop(_, _, _, _)
FilterLoop(js_file, tests, i, filtered_js_file) ==
    IF i > Len(js_file) THEN Ok(filtered_js_file)
    ELSE IF ~tests[i].ok THEN tests[i]
    ELSE FilterLoop(js_file, tests, i + 1,
                    IF tests[i].value THEN Append(filtered_js_file, js_file[i])
                    ELSE filtered_js_file)

FilterAnswerInPrompt(js_file) ==
    FilterLoop(js_file, [i \in 1..Len(js_file) |-> AnswerInPrompt(js_file[i])], 1, <<>>)

\* file.replace(".json", "") of line 234: `file` was rebound to the file
\* object at line 220, and a file object has no attribute replace
FileObjectReplace(file) == Err("AttributeError")

\* lines 234-238: the new name, then the write
VerifyWrite(fsx, filtered_js_file, stem) ==
    IF ~stem.ok THEN Outcome(stem, fsx, {})
    ELSE Outcome(Ok(<<>>),
                 WriteFile(fsx, stem.value \o <<"_", "answer_verified", ".json">>,
                           json_dumps(filtered_js_file)),
                 {})

\* lines 224-238, the file closed
VerifyFiltered(fsx, file, filtered) ==
    IF ~filtered.ok THEN Outcome(filtered, fsx, {})
    ELSE VerifyWrite(fsx, filtered.value, FileObjectReplace(file))

\* lines 221-238: json.load raises with the file still open
VerifyLoaded(fsx, file, js_file) ==
    IF ~js_file.ok THEN Outcome(js_file, fsx, {Handle("file", file)})
    ELSE VerifyFiltered(fsx, file, FilterAnswerInPrompt(js_file.value))

\* one iteration of the loop of verify_answer_in_prompt
VerifyFile(fsx, file) ==
    IF file \notin DOMAIN fsx THEN Outcome(Err("FileNotFoundError"), fsx, {})
    ELSE VerifyLoaded(fsx, file, json_load(fsx[file]))

\* the second iteration runs only if the first raised nothing
VerifyNext(first, valid_file) ==
    IF ~first.res.ok THEN first ELSE VerifyFile(first.fs, valid_file)

verify_answer_in_prompt(fsx, train_file, valid_file) ==
    VerifyNext(VerifyFile(fsx, train_file), valid_file)

\* The operations keep no state between calls except the files: a behaviour is
\* one call, with any arguments, on any of the initial file systems.
NoOp == [name |-> "none"]

FilterTokenSize ==
    /\ op.name = "none"
    /\ \E train_file \in InputNames, valid_file \in InputNames,
          token_size \in 0..MaxTokenSize :
          \E r \in {filter_token_size(fs, train_file, valid_file, token_size)} :
              /\ fs' = r.fs
              /\ open_handles' = r.open
              /\ op' = [name |-> "filter_token_size", train_file |-> train_file,
                        valid_file |-> valid_file, token_size |-> token_size,
                        res |-> r.res, pre |-> fs]

VerifyAnswerInPrompt ==
    /\ op.name = "none"
    /\ \E train_file \in InputNames, valid_file \in InputNames :
          \E r \in {verify_answer_in_prompt(fs, train_file, valid_file)} :
              /\ fs' = r.fs
              /\ open_handles' = r.open
              /\ op' = [name |-> "verify_answer_in_prompt", train_file |-> train_file,
                        valid_file |-> valid_file, res |-> r.res, pre |-> fs]

FinetuneCount ==
    /\ op.name = "none"
    /\ \E train_file \in InputNames, valid_file \in InputNames :
          \E r \in {finetune_count(fs, train_file, valid_file)} :
              /\ fs' = r.fs
              /\ open_handles' = r.open
              /\ op' = [name |-> "finetune_self_ask", train_file |-> train_file,
                        valid_file |-> valid_file, res |-> r.res, pre |-> fs]

LoadTestData ==
    /\ op.name = "none"
    /\ \E file \in InputNames, n \in (-1)..(MaxFileLen + 1) :
          \E r \in {load_TestData(fs, file, n)} :
              /\ fs' = r.fs
              /\ open_handles' = r.open
              /\ op' = [name |-> "load_TestData", file |-> file, n_examples |-> n,
                        res |-> r.res, pre |-> fs]

LoadFinetuningData ==
    /\ op.name = "none"
    /\ \E n \in (-1)..(MaxFileLen + 1), split \in {"train", "dev"},
          strategy \in {"direct", "self_ask"} :
          \E r \in {load_FinetuningData(fs, n, split, strategy)} :
              /\ fs' = r.fs
              /\ open_handles' = r.open
              /\ op' = [name |-> "load_FinetuningData",
                        file |-> FinetuningPath(strategy, split), n_examples |-> n,
                        res |-> r.res, pre |-> fs]

NextFiles ==
    \/ FilterTokenSize /\ UNCHANGED <<genVars, extVars>>
    \/ VerifyAnswerInPrompt /\ UNCHANGED <<genVars, extVars>>
    \/ FinetuneCount /\ UNCHANGED <<genVars, extVars>>
    \/ LoadTestData /\ UNCHANGED <<genVars, extVars>>
    \/ LoadFinetuningData /\ UNCHANGED <<genVars, extVars>>

\* ------------------------------------------------------ specifications
InitSpecGen ==
    /\ InitGen
    /\ target = <<>> /\ result = Unset
    /\ fs = <<>> /\ open_handles = {} /\ op = NoOp

SpecGen == InitSpecGen /\ [][NextGen]_vars

InitSpecExtract ==
    /\ target \in Targets /\ result = Unset
    /\ n_examples = 0 /\ batch_size = 1 /\ shuffle = FALSE /\ row_order = <<>>
    /\ row_is_array = TRUE /\ data_rows = <<>> /\ gen_pc = "none" /\ gen_i = 0
    /\ yielded = <<>> /\ auto_epoch_ends = 0 /\ event = "construct" /\ last = NoCall
    /\ fs = <<>> /\ open_handles = {} /\ op = NoOp

NextExtract == ExtractAnswer /\ UNCHANGED <<genVars, fileVars>>

SpecExtract == InitSpecExtract /\ [][NextExtract]_vars

\* the file system before any operation: each input file absent, malformed or
\* a list of examples
InitSpecFiles ==
    /\ \E present \in SUBSET InputNames :
          /\ fs \in [present -> FileTexts]
          /\ TrainNoExt \in present => fs[TrainNoExt] = json_dumps(<<ExA, ExB>>)
    /\ open_handles = {} /\ op = NoOp
    /\ target = <<>> /\ result = Unset
    /\ n_examples = 0 /\ batch_size = 1 /\ shuffle = FALSE /\ row_order = <<>>
    /\ row_is_array = TRUE /\ data_rows = <<>> /\ gen_pc = "none" /\ gen_i = 0
    /\ yielded = <<>> /\ auto_epoch_ends = 0 /\ event = "construct" /\ last = NoCall

SpecFiles == InitSpecFiles /\ [][NextFiles]_vars

\* ------------------------------------------------- claims: the generator
\* rows [idx*batch_size, idx*batch_size + batch_size) of the file, in file order
FileRows(idx) == [k \in 1..batch_size |-> data_rows[idx * batch_size + k]]

\* C1: whatever the shuffle flag and however many epoch ends have happened,
\* item(index), 0 <= index < length(), completes and returns the encoding of
\* exactly rows [index*batch_size, index*batch_size + batch_size) in file order.
C1_ItemReturnsFileOrderRows ==
    last.idx >= 0 => last.res = Ok(preprocess_data(FileRows(last.idx)))

RowsOf(i) == {GetItem(i).value.encoded[k] : k \in 1..Len(GetItem(i).value.encoded)}

\* C2: length() is n_examples // batch_size; the batches item(0..length()-1)
\* hold batch_size rows each, are pairwise disjoint and cover exactly the rows
\* [0, length()*batch_size), so the trailing rows are in no batch.
C2_BatchesPartitionPrefix ==
    /\ GenLen * batch_size <= n_examples
    /\ n_examples < (GenLen + 1) * batch_size
    /\ \A i \in 0..(GenLen - 1) :
          /\ GetItem(i).ok
          /\ Len(GetItem(i).value.encoded) = batch_size
    /\ \A i, j \in 0..(GenLen - 1) : i # j => RowsOf(i) \cap RowsOf(j) = {}
    /\ UNION {RowsOf(i) : i \in 0..(GenLen - 1)}
           = {data_rows[k] : k \in 1..(GenLen * batch_size)}

\* C8: a pass of __call__ yields item(0), ..., item(length()-1) in this order
\* and ends; on_epoch_end is triggered exactly once per pass over the batches
\* (a pass that has batches), after the last batch and never before it.
C8_PassYieldsAllThenEpochEnd ==
    /\ auto_epoch_ends > 0 => Len(yielded) = GenLen
    /\ gen_pc \in {"done", "raised"} =>
          /\ gen_pc = "done"
          /\ yielded = [k \in 1..GenLen |-> preprocess_data(FileRows(k - 1))]
          /\ GenLen >= 1 => auto_epoch_ends = 1

IsPermutationOfInitial ==
    /\ Len(row_order) = n_examples
    /\ \A v \in 1..n_examples : Cardinality({k \in 1..Len(row_order) : row_order[k] = v}) = 1

\* C10: row_order is always a permutation of the n_examples indices it was
\* initialised with, and a step changes it only if it is an on_epoch_end with
\* shuffling enabled.
C10_RowOrderPermutation ==
    /\ []IsPermutationOfInitial
    /\ [][row_order' # row_order => (shuffle /\ event' = "epoch_end")]_vars

C10_Witness ==
    /\ shuffle /\ n_examples >= 3 /\ event = "epoch_end" /\ gen_pc = "done"
    /\ row_order # Arange(1, n_examples + 1)
    /\ last.idx >= 0

\* ------------------------------- claims: extract_answer_from_target
\* 'answer is' at s, then optional whitespace, at least one non-period
\* character and a period
Occurrence(t, s) ==
    /\ LiteralAt(t, s)
    /\ \E a \in (s + Len(AnswerIs))..Len(t) : \E p \in (a + 1)..Len(t) :
          /\ \A j \in (s + Len(AnswerIs))..(a - 1) : IsSpace(t[j])
          /\ \A j \in a..(p - 1) : t[j] # "."
          /\ t[p] = "."

\* x is y without its leading and trailing whitespace
IsTrimOf(x, y) ==
    /\ x = <<>> \/ (~IsSpace(x[1]) /\ ~IsSpace(x[Len(x)]))
    /\ \E i \in 1..(Len(y) + 1) : \E j \in 0..Len(y) :
          /\ x = SubSeq(y, i, j)
          /\ \A k \in 1..(i - 1) : IsSpace(y[k])
          /\ \A k \in (j + 1)..Len(y) : IsSpace(y[k])

\* C5: extract_answer_from_target returns null exactly when the string has no
\* occurrence of the pattern; otherwise the text between the leftmost such
\* 'answer is' and the first period after it, trimmed, which holds no period.
C5_ExtractAnswer ==
    result.called =>
        LET occ == {s \in 1..Len(target) : Occurrence(target, s)}
            v == result.value
        IN  /\ v.none <=> occ = {}
            /\ ~v.none =>
                  LET q == SetMin(occ) + Len(AnswerIs)
                      p == SetMin({j \in q..Len(target) : target[j] = "."})
                  IN  /\ IsTrimOf(v.text, SubSeq(target, q, p - 1))
                      /\ \A k \in 1..Len(v.text) : v.text[k] # "."
            /\ target = TheAnswerIsParis => v = Str(<<"P", "a", "r", "i", "s">>)
            /\ target = NoAnswerHere => v = None

\* the answer is all whitespace: \s* had to give a character back
C5_Witness ==
    /\ result.called /\ result.value = Str(<<>>)
    /\ \E s \in 2..Len(target) : Occurrence(target, s)

\* --------------------------------------------- claims: operations on files
\* a file of the file system fsx that parses as JSON
Loadable(fsx, file) == file \in DOMAIN fsx /\ fsx[file].wellformed

\* the examples of a file's text, as the claims speak of them
ExamplesOf(text) ==
    [i \in 1..Len(text.items) |->
        [prompt |-> text.items[i][1], target |-> text.items[i][2],
         num_prompt_tokens |-> text.items[i][3]]]

\* <original name without .json>_<suffix>.json
NameWithSuffix(file, suffix) ==
    (IF file[Len(file)] = ".json" THEN SubSeq(file, 1, Len(file) - 1) ELSE file)
        \o <<"_", suffix, ".json">>

\* the target holds an answer, and the answer is a literal substring of the prompt
HasAnswerInPrompt(example) ==
    /\ \E s \in 1..Len(example.target) : Occurrence(example.target, s)
    /\ IsSubstring(extract_answer_from_target(example.target).text, example.prompt)

\* C3: verify_answer_in_prompt writes, for the train and for the validation
\* file, <name>_answer_verified.json holding exactly the examples whose
\* extracted answer is a substring of their prompt, in the original order;
\* after the call both output files exist.
C3_VerifiedFilesWritten ==
    (/\ op.name = "verify_answer_in_prompt"
     /\ Loadable(op.pre, op.train_file)
     /\ Loadable(op.pre, op.valid_file)) =>
        /\ op.res.ok
        /\ \A file \in {op.train_file, op.valid_file} :
              /\ NameWithSuffix(file, "answer_verified") \in DOMAIN fs
              /\ fs[NameWithSuffix(file, "answer_verified")].wellformed
              /\ ExamplesOf(fs[NameWithSuffix(file, "answer_verified")])
                     = SelectSeq(ExamplesOf(op.pre[file]), HasAnswerInPrompt)

\* C4: a regex non-match is never an error: extract_answer_from_target returns
\* null for a target without the pattern, and verify_answer_in_prompt does not
\* raise on an example whose target does not match.
C4_NonMatchIsNoError ==
    /\ \A example \in Examples :
          (\A s \in 1..Len(example.target) : ~Occurrence(example.target, s))
              => extract_answer_from_target(example.target) = None
    /\ op.name = "verify_answer_in_prompt" => op.res.error # "TypeError"

\* C9: once an operation that opens files has returned or failed, every file
\* handle it opened is closed.
C9_HandlesClosed == op.name # "none" => open_handles = {}

\* the examples of a file with num_prompt_tokens <= threshold, in file order
WithinThreshold(text, threshold) ==
    LET Small(example) == example.num_prompt_tokens <= threshold
    IN  SelectSeq(ExamplesOf(text), Small)

\* the output for each input is named <name>_<threshold>.json and loads, with
\* the plain loader, as the input's examples within the threshold
FilterOutputsLoadBack ==
    \A file \in {op.train_file, op.valid_file} :
        load_TestData(fs, NameWithSuffix(file, str(op.token_size)), -1).res
            = Ok(WithinThreshold(op.pre[file], op.token_size))

FilterInputsUnchanged ==
    \A file \in {op.train_file, op.valid_file} :
        file \in DOMAIN fs /\ fs[file] = op.pre[file]

FilterRan ==
    /\ op.name = "filter_token_size"
    /\ Loadable(op.pre, op.train_file)
    /\ Loadable(op.pre, op.valid_file)

\* C6 as stated: for every pair of input files and every threshold the outputs
\* load back as the filtered inputs and the input files are left unchanged.
C6_FilterRoundTripAnyFiles ==
    FilterRan => (op.res.ok /\ FilterOutputsLoadBack /\ FilterInputsUnchanged)

\* no output name is the name of an input, and two different inputs have
\* different output names
FilterNamesApart ==
    LET out_train == NameWithSuffix(op.train_file, str(op.token_size))
        out_valid == NameWithSuffix(op.valid_file, str(op.token_size))
    IN  /\ {out_train, out_valid} \cap {op.train_file, op.valid_file} = {}
        /\ out_train = out_valid => op.train_file = op.valid_file

\* C6 amended: the same, for input files and thresholds whose output names are
\* the name of neither input and differ when the inputs differ.
C6_FilterRoundTrip ==
    (FilterRan /\ FilterNamesApart) =>
        (op.res.ok /\ FilterOutputsLoadBack /\ FilterInputsUnchanged)

\* the threshold is the num_prompt_tokens of a kept example, and one is dropped
C6_Witness ==
    /\ FilterRan /\ FilterNamesApart /\ op.res.ok
    /\ op.train_file = TrainFile /\ op.valid_file = TrainFile_1
    /\ op.token_size = 2
    /\ op.pre[TrainFile] = json_dumps(<<ExB, ExC>>)
    /\ ExamplesOf(fs[NameWithSuffix(TrainFile, "2")]) = <<ExB>>
    /\ ExamplesOf(fs[NameWithSuffix(TrainFile_1, "2")]) = <<ExB, ExA>>

\* C7: a loader given cap N > 0 returns the first min(N, total_examples)
\* records of the file in file order; given N <= 0 it returns all of them.
C7_LoaderCap ==
    (/\ op.name \in {"load_TestData", "load_FinetuningData"}
     /\ Loadable(op.pre, op.file)) =>
        LET records == ExamplesOf(op.pre[op.file])
            total_examples == Len(records)
            N == op.n_examples
            got == op.res.value
        IN  /\ op.res.ok
            /\ N > 0 => /\ Len(got) = Min(N, total_examples)
                        /\ \A i \in 1..Len(got) : got[i] = records[i]
            /\ N <= 0 => got = records

C7_Witness ==
    /\ op.name = "load_FinetuningData" /\ op.res.ok
    /\ op.n_examples = 1
    /\ op.pre[op.file] = json_dumps(<<ExC, ExA>>)
    /\ op.res.value = <<ExC>>
====
